---- MODULE Spec2Model ----
(***************************************************************************)
(* Verification model of the EulerQ front end:                             *)
(*   - the QUBO playground (components/QuboPlayground.tsx): parseMatrix,   *)
(*     energyQubo, the matrix-change reset effect and the cooperative      *)
(*     simulated-annealing loop run()/stop();                              *)
(*   - the route comparison orchestrators (optimizer-demo page,            *)
(*     RouteOptimizer component, lib/runOptimize).                         *)
(*                                                                         *)
(* JavaScript runs handlers to completion on one thread.  A handler, an    *)
(* effect, or the synchronous stretch of an async function between two     *)
(* awaits is therefore one atomic step (or an uninterruptible chain of     *)
(* steps) of the model.                                                    *)
(***************************************************************************)
EXTENDS Integers, Sequences, FiniteSets, TLC

(***************************************************************************)
(* Bounds of the model.                                                    *)
(***************************************************************************)
MaxSteps == 3      \* largest value typed into the Steps input
MaxBatch == 2      \* largest value typed into the Batch input
MaxLoops == 2      \* run() loops that may be alive at the same time
MaxRows == 2       \* rows of a typed matrix text
MaxCols == 2       \* tokens in a row of a typed matrix text

(***************************************************************************)
(* JavaScript values.  Numbers are integers plus NaN; an array slot that   *)
(* was never written (or was written `undefined`) reads as Undef.          *)
(***************************************************************************)
NaN == 1000
Undef == 2

Plus(a, b) == IF a = NaN \/ b = NaN THEN NaN ELSE a + b
Minus(a, b) == IF a = NaN \/ b = NaN THEN NaN ELSE a - b
Lt(a, b) == a # NaN /\ b # NaN /\ a < b
Le(a, b) == a # NaN /\ b # NaN /\ a <= b
Min(a, b) == IF a <= b THEN a ELSE b

\* x[i] of a JS array, 1-based here: a read past the end gives undefined
Get(x, i) == IF i \in 1..Len(x) THEN x[i] ELSE Undef

\* x[i] = v of a JS array: a write past the end extends it, leaving holes
SetAt(x, i, v) ==
  [j \in 1..(IF i > Len(x) THEN i ELSE Len(x)) |-> IF j = i THEN v ELSE Get(x, j)]

\* xi ^ 1 : ToInt32(undefined) is 0
Xor1(xi) == IF xi = 1 THEN 0 ELSE 1

(***************************************************************************)
(* Matrix text.  A text is either JSON (an array of arrays of values) or   *)
(* textual rows (non-empty lines of tokens separated by commas / blanks).  *)
(* A token is kept as the string typed; "a" stands for a non-numeric token *)
(* (in JSON: the string literal "a").                                      *)
(***************************************************************************)
Tokens == {"1", "-2", "a"}

\* Number(v)
ToNumber(tok) ==
  CASE tok = "1" -> 1
    [] tok = "-2" -> 0 - 2
    [] OTHER -> NaN

NotNaN(v) == v # NaN

\* the loose CSV-ish branch of parseMatrix (the catch block)
parseRows(rows) ==
  LET mat == [r \in 1..Len(rows) |->
                SelectSeq([c \in 1..Len(rows[r]) |-> ToNumber(rows[r][c])], NotNaN)]
      n == IF Len(mat) = 0 THEN 0 ELSE Len(mat[1])
  IN IF n = 0 \/ \E r \in 1..Len(mat) : Len(mat[r]) # n
       THEN [ok |-> FALSE, mat |-> <<>>]
       ELSE [ok |-> TRUE, mat |-> mat]

\* the JSON branch of parseMatrix: j.map(row => row.map(v => Number(v)))
parseJson(rows) ==
  [ok |-> TRUE,
   mat |-> [r \in 1..Len(rows) |-> [c \in 1..Len(rows[r]) |-> ToNumber(rows[r][c])]]]

\* parseMatrix inside the try/catch of the useMemo: ok = FALSE is Q = null
parseMatrix(text) ==
  IF text.form = "json" THEN parseJson(text.rows) ELSE parseRows(text.rows)

\* Q[i][j]; a read past the end of a row is undefined, and E += undefined is NaN
QAt(Q, i, j) == IF j \in 1..Len(Q[i]) THEN Q[i][j] ELSE NaN

\* energyQubo throws a TypeError when it reads Q[i][j] with Q[i] undefined
energyThrows(Q, x) == \E i \in 1..Len(x) : x[i] # 0 /\ i > Len(Q)

RECURSIVE energyCells(_, _, _, _, _)
\* for (i) { if (x[i] === 0) continue; for (j) { if (x[j] === 0) continue;
\* E += Q[i][j]; } } from the cell (i, j) on (upper: j starts at i)
energyCells(Q, x, i, j, upper) ==
  IF i > Len(x) THEN 0
  ELSE IF j > Len(x) THEN energyCells(Q, x, i + 1, IF upper THEN i + 1 ELSE 1, upper)
  ELSE Plus(IF x[i] # 0 /\ x[j] # 0 THEN QAt(Q, i, j) ELSE 0,
            energyCells(Q, x, i, j + 1, upper))

\* for (let j = i; ...): the cells on and above the diagonal only
energyQuboUpper(Q, x) == energyCells(Q, x, 1, 1, TRUE)

\* E = x^T Q x over the entries of x that are not === 0
energyQubo(Q, x) == energyCells(Q, x, 1, 1, FALSE)

\* randomBits(n): every outcome of n coin flips
randomBits(n) == [1..n -> {0, 1}]

(***************************************************************************)
(* Texts typed into the matrix textarea while the engine is observed.      *)
(***************************************************************************)
ToyText == [form |-> "json", rows |-> << <<"1", "-2">>, <<"-2", "1">> >>]
AltText == [form |-> "json", rows |-> << <<"-2", "1">>, <<"1", "-2">> >>]
OneText == [form |-> "rows", rows |-> << <<"-2">> >>]
BadText == [form |-> "rows", rows |-> << <<"1", "-2">>, <<"1">> >>]
Texts == {ToyText, AltText, OneText, BadText}

\* every text of at most MaxRows rows of at most MaxCols tokens, in both forms
SeqsUpTo(S, m) == UNION {[1..k -> S] : k \in 0..m}
JsonTexts == {[form |-> "json", rows |-> r] : r \in SeqsUpTo(SeqsUpTo(Tokens, MaxCols), MaxRows)}
RowsTexts == {[form |-> "rows", rows |-> r] :
                r \in SeqsUpTo(SeqsUpTo(Tokens, MaxCols) \ {<<>>}, MaxRows)}
AllTexts == JsonTexts \cup RowsTexts

\* what the Steps and Batch inputs can hold: parseInt(e.target.value || "0")
StepsVals == {0, MaxSteps}
BatchVals == {0, MaxBatch}
\* what the T0 and T1 inputs can hold: parseFloat(e.target.value || "0")
Temps == {0, 2}
Loops == 1..MaxLoops

VARIABLES
  matrixText,   \* useState: the textarea
  state,        \* useState<RunState>
  x, bestX, E, bestE, iter,   \* useState: the published snapshot
  xRef, ERef, bestXRef, bestERef, stopRef,   \* useRef: the working copies
  loops,        \* the invocations of run() that have not returned
  orch,         \* the orchestrator observed: "demo", "ro", "lib" ("none": the playground)
  sellers,      \* useState: the stop set
  roundTrip,    \* useState: roundTrip (optimizer-demo), sameAsStart (RouteOptimizer)
  res,          \* useState: naive, greedy, qubo, jij; for runOptimize the object returned
  errs,         \* useState: errQubo, errJij (optimizer-demo), error (RouteOptimizer)
  loading,      \* useState: loadingOpt / loading
  call,         \* the optimize call in flight: where it awaits, and its closure
  fn,           \* the helper function called on its own ("none": none is)
  arg,          \* its arguments
  out           \* done: it has returned; val: what it returned

engineVars == <<matrixText, state, x, bestX, E, bestE, iter,
                xRef, ERef, bestXRef, bestERef, stopRef, loops>>
orchVars == <<orch, sellers, roundTrip, res, errs, loading, call>>
callVars == <<fn, arg, out>>
vars == <<engineVars, orchVars, callVars>>

refs == <<xRef, ERef, bestXRef, bestERef>>

(***************************************************************************)
(* Route comparison: geometry                                              *)
(***************************************************************************)
Abs(a) == IF a < 0 THEN 0 - a ELSE a
Pt(a, b) == [lat |-> a, lng |-> b]

\* haversine(a, b): the great-circle distance, taken on integer grid
\* coordinates as the taxicab distance (symmetric, 0 exactly for a = b)
\* (a coordinate that is NaN or infinite makes Math.sin and with it the
\* distance NaN)
haversine(a, b) ==
  IF NaN \in {a.lat, a.lng, b.lat, b.lng} THEN NaN
  ELSE Abs(a.lat - b.lat) + Abs(a.lng - b.lng)

\* orders hold 0-based stop indices, as in the code
At(pts, idx) == pts[idx + 1]

RECURSIVE LegsFrom(_, _, _)
\* for (const idx of order) { total += haversine(cur, pts[idx]); cur = pts[idx]; }
LegsFrom(cur, pts, order) ==
  IF order = <<>> THEN 0
  ELSE haversine(cur, At(pts, Head(order))) + LegsFrom(At(pts, Head(order)), pts, Tail(order))

Last(order) == order[Len(order)]

\* routeDistanceKm of the optimizer-demo page (end = null when roundTrip)
routeDistanceKmPage(start, hasEnd, end, pts, order, rt) ==
  LET cur == IF order = <<>> THEN start ELSE At(pts, Last(order))
  IN LegsFrom(start, pts, order)
       + (IF rt THEN haversine(cur, start) ELSE IF hasEnd THEN haversine(cur, end) ELSE 0)

\* routeDistanceKm of lib/routeHelpers: the same walk behind an early return
routeDistanceKm(start, hasEnd, end, pts, order, rt) ==
  IF order = <<>> THEN 0
  ELSE LegsFrom(start, pts, order)
         + (IF rt THEN haversine(At(pts, Last(order)), start)
            ELSE IF hasEnd THEN haversine(At(pts, Last(order)), end) ELSE 0)

\* D[i][j] filled for i < j only
buildDistanceMatrixUpper(points) ==
  [i \in 1..Len(points) |-> [j \in 1..Len(points) |->
     IF i < j THEN haversine(points[i], points[j]) ELSE 0]]

\* buildDistanceMatrix: D[i][j] = i === j ? 0 : haversine(points[i], points[j])
buildDistanceMatrix(points) ==
  [i \in 1..Len(points) |-> [j \in 1..Len(points) |->
     IF i = j THEN 0 ELSE haversine(points[i], points[j])]]

RECURSIVE MatrixLegs(_, _, _)
\* for (k = 0; k < order.length - 1; k++) km += D[order[k]][order[k + 1]]
MatrixLegs(D, order, k) ==
  IF k >= Len(order) THEN 0
  ELSE D[order[k] + 1][order[k + 1] + 1] + MatrixLegs(D, order, k + 1)

\* distanceForOrderIncludingDepots of RouteOptimizer
distanceForOrderIncludingDepots(order, cities, start, end, rt) ==
  IF order = <<>> THEN 0
  ELSE haversine(start, At(cities, order[1]))
         + MatrixLegs(buildDistanceMatrix(cities), order, 1)
         + (IF rt THEN haversine(At(cities, Last(order)), start)
                  ELSE haversine(At(cities, Last(order)), end))

\* the unvisited stop greedyRoute takes next: the first, in index order, at
\* the least distance from cur (d < bestD keeps the earlier of two equals)
\* (the scan of the set, in insertion order 0, 1, ...; best = -1 stands for
\* bestD = Infinity; takeTie: an equal distance replaces the best so far;
\* d < bestD is false for a distance that is NaN, so best can stay -1)
RECURSIVE ScanBest(_, _, _, _, _, _, _)
ScanBest(cur, pts, i, unvis, best, bestD, takeTie) ==
  IF i >= Len(pts) THEN best
  ELSE LET d == haversine(cur, At(pts, i))
       IN IF i \in unvis /\ d # NaN
               /\ (best = 0 - 1 \/ d < bestD \/ (takeTie /\ d = bestD))
          THEN ScanBest(cur, pts, i + 1, unvis, i, d, takeTie)
          ELSE ScanBest(cur, pts, i + 1, unvis, best, bestD, takeTie)

\* if (d <= bestD): the last of two equals is kept
NearestLast(cur, unvis, pts) == ScanBest(cur, pts, 0, unvis, 0 - 1, 0, TRUE)

\* if (d > bestD), from bestD = -Infinity: the stop farthest away is taken
Farthest(cur, unvis, pts) ==
  CHOOSE i \in unvis : \A j \in unvis :
    haversine(cur, At(pts, i)) > haversine(cur, At(pts, j))
      \/ (haversine(cur, At(pts, i)) = haversine(cur, At(pts, j)) /\ i <= j)

\* if (d < bestD)
Nearest(cur, unvis, pts) == ScanBest(cur, pts, 0, unvis, 0 - 1, 0, FALSE)

RECURSIVE greedyFrom(_, _, _, _)
\* while (unvis.size) { ...; order.push(best); unvis.delete(best); cur = pts[best]; }
\* With best = -1 nothing is deleted and cur = pts[-1] is undefined: the next
\* turn of the loop throws a TypeError in haversine(cur, pts[i]).  The call
\* then does not return; its value here is the order as the throw leaves it,
\* ending in -1.
greedyFrom(cur, unvis, order, pts) ==
  IF unvis = {} THEN order
  ELSE LET best == Nearest(cur, unvis, pts)
       IN IF best = 0 - 1 THEN Append(order, best)
          ELSE greedyFrom(At(pts, best), unvis \ {best}, Append(order, best), pts)

\* unvis without index 0
greedyRouteSkipsFirst(start, pts) == greedyFrom(start, 1..(Len(pts) - 1), <<>>, pts)

\* greedyRoute(start, end, pts)
greedyRoute(start, pts) == greedyFrom(start, 0..(Len(pts) - 1), <<>>, pts)

(***************************************************************************)
(* Route comparison: polylines                                             *)
(***************************************************************************)
\* coordinates count in units of 1e-9 degrees where closeness matters
Eps == 1
\* (Math.abs(a - b) <= eps is false when a or b is NaN)
nearlyEqual(a, b) == a # NaN /\ b # NaN /\ Abs(a - b) <= Eps

Tup(p) == <<p.lat, p.lng>>

\* without the test of the last point: the first point is always appended
ensureClosedAlways(path, rt) ==
  IF ~rt \/ Len(path) < 2 THEN path ELSE Append(path, path[1])

\* ensureClosed(path, roundTrip)
ensureClosed(path, rt) ==
  IF ~rt \/ Len(path) < 2 THEN path
  ELSE IF ~nearlyEqual(path[1][1], Last(path)[1]) \/ ~nearlyEqual(path[1][2], Last(path)[2])
       THEN Append(path, path[1])
       ELSE path

\* opts: { roundTrip, start?, end? }
Opts(rt, hasStart, start, hasEnd, end) ==
  [rt |-> rt, hasStart |-> hasStart, start |-> start, hasEnd |-> hasEnd, end |-> end]

\* the points orderToPolyline pushes before it calls ensureClosed
polylinePoints(order, cities, opts) ==
  LET head == IF opts.hasStart THEN <<Tup(opts.start)>> ELSE <<>>
      body == head \o [k \in 1..Len(order) |-> Tup(At(cities, order[k]))]
  IN IF opts.hasEnd THEN Append(body, Tup(opts.end))
     ELSE IF opts.rt
          THEN IF opts.hasStart THEN Append(body, Tup(opts.start))
               ELSE IF Len(order) > 0 THEN Append(body, Tup(At(cities, order[1])))
               ELSE body
          ELSE body

\* return pts: without the call of ensureClosed
orderToPolylineOpen(order, cities, opts) == polylinePoints(order, cities, opts)

\* orderToPolyline(order, cities, opts)
orderToPolyline(order, cities, opts) ==
  ensureClosed(polylinePoints(order, cities, opts), opts.rt)

(***************************************************************************)
(* Route comparison: the data the orchestrators are observed on            *)
(***************************************************************************)
MinSellers == 5
NullKm == 0 - 1            \* km: null

Depot == Pt(0, 0)          \* start
EndDepot == Pt(3, 3)       \* end, when the tour is open
Line5 == <<Pt(0, 1), Pt(0, 2), Pt(0, 3), Pt(0, 4), Pt(0, 5)>>
Zig5 == <<Pt(0, 3), Pt(1, 1), Pt(0, 5), Pt(2, 2), Pt(1, 4)>>
StopSets == {Line5, Zig5}
Pair2 == <<Pt(0, 1), Pt(1, 0)>>
\* the seller counts typed or slid, and the stops Math.random can give
Counts == {2, 5}
RandomStops(N) == {pts \in StopSets \cup {Pair2} : Len(pts) = N}
Max(a, b) == IF a > b THEN a ELSE b
MaxSellers == 50

Identity(N) == [i \in 1..N |-> i - 1]
Reverse(N) == [i \in 1..N |-> N - i]

\* What a remote call can come to.
\*   net     fetch resolved (FALSE: it rejected)
\*   ok      r.ok
\*   json    r.json() resolves (FALSE: the body is no JSON)
\*   flagOk  the body does not hold ok: false
\*   has     the body holds its order field (order / route / solution.order)
\*   order   that order; base: solution.baseline_order; km: the self-reported
\*           distance (NullKm: none)
Resp(net, ok, json, flagOk, has, order) ==
  [net |-> net, ok |-> ok, json |-> json, flagOk |-> flagOk, has |-> has,
   order |-> order, base |-> order, km |-> IF has /\ order # <<>> THEN 7 ELSE NullKm]
RespNetFail == Resp(FALSE, FALSE, FALSE, TRUE, FALSE, <<>>)
RespHttpErr == Resp(TRUE, FALSE, TRUE, TRUE, FALSE, <<>>)
RespHttpErrText == Resp(TRUE, FALSE, FALSE, TRUE, FALSE, <<>>)
RespBadBody == Resp(TRUE, TRUE, FALSE, TRUE, FALSE, <<>>)
RespOkFalse == Resp(TRUE, TRUE, TRUE, FALSE, FALSE, <<>>)
RespNoOrder == Resp(TRUE, TRUE, TRUE, TRUE, FALSE, <<>>)
RespEmpty == Resp(TRUE, TRUE, TRUE, TRUE, TRUE, <<>>)
RespGood(N) == {Resp(TRUE, TRUE, TRUE, TRUE, TRUE, o) : o \in {Identity(N), Reverse(N)}}
Resps(N) == {RespNetFail, RespHttpErr, RespHttpErrText, RespBadBody, RespOkFalse,
             RespNoOrder, RespEmpty} \cup RespGood(N)
\* answers whose order is no permutation of [0..N): too short, an index
\* repeated, an index out of range
RespBad(N) == {Resp(TRUE, TRUE, TRUE, TRUE, TRUE, o) :
                 o \in {<<0>>, [i \in 1..N |-> 0], [i \in 1..N |-> i]}}
NoResp == Resp(FALSE, FALSE, FALSE, FALSE, FALSE, <<>>)

\* a result object; some = FALSE is null
Result(order, km) == [some |-> TRUE, order |-> order, km |-> km]
Null == [some |-> FALSE, order |-> <<>>, km |-> NullKm]
Labels == {"naive", "greedy", "qubo", "jij"}
NoResults == [l \in Labels |-> Null]
NoErrs == [qubo |-> "", jij |-> "", error |-> ""]
NoCall == [at |-> "idle", sellers |-> <<>>, rt |-> FALSE, jij |-> NoResp]

\* no helper function is called on its own
Pending == [done |-> FALSE, val |-> <<>>]
Returned(v) == [done |-> TRUE, val |-> v]
CallOff ==
  /\ fn = "none"
  /\ arg = <<>>
  /\ out = Pending

\* the orchestrators are not under observation
OrchOff ==
  /\ orch = "none"
  /\ sellers = <<>>
  /\ roundTrip = FALSE
  /\ res = NoResults
  /\ errs = NoErrs
  /\ loading = FALSE
  /\ call = NoCall

\* const Q = useMemo(() => { try { parseMatrix } catch { null } }, [matrixText])
Q == parseMatrix(matrixText)
\* const n = Q?.length ?? 0
nOf(q) == IF q.ok THEN Len(q.mat) ELSE 0
n == nOf(Q)

\* A run() invocation: its closure (Q, total = steps, batch, t0, t1), its counter k,
\* the end of the batch in progress, and where it stands:
\*   "batch" inside the for loop, "await" suspended on requestAnimationFrame.
\* touched and pubE record history for the properties below:
\*   touched  somebody else changed the refs since this run's latest proposal,
\*   pubE     bestEnergy as of this run's latest batch boundary (at first,
\*            as of its start).
NoLoop == [pc |-> "none", Q |-> <<>>, total |-> 0, batch |-> 0, t0 |-> 0, t1 |-> 0,
           k |-> 0, limit |-> 0, touched |-> FALSE, pubE |-> 0]

Alive(l) == loops[l].pc # "none"

\* no synchronous stretch of run() is executing: the event loop can take an event
EvIdle == \A l \in Loops : loops[l].pc # "batch"

FreeLoop == CHOOSE l \in Loops : ~Alive(l) /\ \A m \in Loops : m < l => Alive(m)

\* the loops after a step of `by` (0: not a loop) that takes the refs to r
Touch(ls, by, r) ==
  [l \in Loops |-> IF l # by /\ ls[l].pc # "none" /\ r # refs
                     THEN [ls[l] EXCEPT !.touched = TRUE] ELSE ls[l]]

\* the body of the reset effect, for the matrix q
ResetTo(q, x0) ==
  LET E0 == energyQubo(q.mat, x0)
  IN /\ xRef' = x0
     /\ ERef' = E0
     /\ bestXRef' = x0
     /\ bestERef' = E0
     /\ x' = x0
     /\ E' = E0
     /\ bestX' = x0
     /\ bestE' = E0
     /\ iter' = 0
     /\ state' = "idle"
     /\ stopRef' = FALSE
     /\ loops' = Touch(loops, 0, <<x0, E0, x0, E0>>)

\* useEffect(..., [n]): runs after a render in which n differs from the last one
ResetEffect(qOld, qNew) ==
  IF nOf(qNew) # nOf(qOld) /\ qNew.ok
    THEN \E x0 \in randomBits(Len(qNew.mat)) : ResetTo(qNew, x0)
    ELSE UNCHANGED <<xRef, ERef, bestXRef, bestERef, x, E, bestX, bestE, iter, state,
                     stopRef, loops>>

\* The page after mounting and loading the toy matrix: the effect has reset
\* the engine for it.
Mounted(x0) ==
  /\ matrixText = ToyText
  /\ state = "idle"
  /\ xRef = x0 /\ bestXRef = x0 /\ x = x0 /\ bestX = x0
  /\ ERef = energyQubo(parseMatrix(ToyText).mat, x0)
  /\ bestERef = ERef /\ E = ERef /\ bestE = ERef
  /\ iter = 0
  /\ stopRef = FALSE
  /\ loops = [l \in Loops |-> NoLoop]

Init ==
  /\ \E x0 \in randomBits(2) : Mounted(x0)
  /\ OrchOff
  /\ CallOff

\* onChange of the textarea: setMatrixText, render, effect
MatrixEdit(t) ==
  /\ EvIdle
  /\ t # matrixText
  /\ matrixText' = t
  /\ ResetEffect(Q, parseMatrix(t))
  /\ UNCHANGED <<orchVars, callVars>>

\* Math.random() < Math.exp(-dE / Math.max(1e-9, T)) never holds for dE > 0
HotNever(t0, t1, k, total) == FALSE

\* T = t0 + (t1 - t0) * (k / Math.max(1, total - 1)) is positive: for dE > 0,
\* Math.exp(-dE / Math.max(1e-9, T)) is then a positive number that
\* Math.random() can fall below; at T <= 0 it is Math.exp(-dE * 1e9) = 0
Hot(t0, t1, k, total) ==
  LET D == IF total - 1 > 1 THEN total - 1 ELSE 1
  IN t0 * (D - k) + t1 * k > 0

\* while (k < total && !stopRef.current)
Continues(lp, stopped) == lp.k < lp.total /\ ~stopped

\* const limit = Math.min(total, k + batch)
NextLimit(lp) == Min(lp.total, lp.k + lp.batch)

\* run(): the Run button (disabled when !Q or state === "running") with the
\* values s, b, t0 and t1 that the Steps, Batch, T0 and T1 inputs hold (only
\* run() reads them), up to the first evaluation of the while condition
Run(s, b, t0, t1) ==
  LET lp == [pc |-> "batch", Q |-> Q.mat, total |-> s, batch |-> b, t0 |-> t0, t1 |-> t1,
             k |-> 0, limit |-> 0, touched |-> FALSE, pubE |-> bestERef]
  IN /\ EvIdle
     /\ Q.ok
     /\ state # "running"
     /\ \E l \in Loops : ~Alive(l)
     /\ stopRef' = FALSE
     /\ IF Continues(lp, FALSE)
          THEN /\ state' = "running"
               /\ loops' = [loops EXCEPT ![FreeLoop] = [lp EXCEPT !.limit = NextLimit(lp)]]
          ELSE /\ state' = "idle"
               /\ loops' = loops
     /\ UNCHANGED <<matrixText, x, bestX, E, bestE, iter, xRef, ERef, bestXRef, bestERef>>
     /\ UNCHANGED <<orchVars, callVars>>

\* run() pressed when no earlier invocation of it is alive
RunAlone(s, b, t0, t1) ==
  /\ \A l \in Loops : ~Alive(l)
  /\ Run(s, b, t0, t1)

\* stop(): the Stop button (disabled unless state === "running")
Stop ==
  /\ EvIdle
  /\ state = "running"
  /\ stopRef' = TRUE
  /\ UNCHANGED <<matrixText, state, x, bestX, E, bestE, iter, xRef, ERef, bestXRef, bestERef, loops>>
  /\ UNCHANGED <<orchVars, callVars>>

\* one iteration of the for loop: flip bit i, evaluate, Metropolis accept
\* (coin: Math.random() falls below Math.exp(-dE / T), which takes T to
\* be positive) or revert; the loop then stands at pcAfter
ProposalTo(l, pcAfter) ==
  LET lp == loops[l]
      N == Len(lp.Q)
  IN /\ lp.pc = "batch"
     /\ lp.k < lp.limit
     /\ \E i \in (IF N = 0 THEN {1} ELSE 1..N), coin \in BOOLEAN :
          LET xi == Get(xRef, i)
              xFlip == SetAt(xRef, i, Xor1(xi))
          IN IF energyThrows(lp.Q, xFlip)
               THEN \* the promise of run() rejects: nothing after line 156 runs
                    /\ xRef' = xFlip
                    /\ UNCHANGED <<ERef, bestXRef, bestERef>>
                    /\ loops' = [Touch(loops, l, refs') EXCEPT ![l] = NoLoop]
               ELSE LET Enew == energyQubo(lp.Q, xFlip)
                        dE == Minus(Enew, ERef)
                        accept == Le(dE, 0)
                                    \/ (coin /\ dE # NaN /\ Hot(lp.t0, lp.t1, lp.k, lp.total))
                        better == accept /\ Lt(Enew, bestERef)
                    IN /\ xRef' = IF accept THEN xFlip ELSE SetAt(xFlip, i, xi)
                       /\ ERef' = IF accept THEN Enew ELSE ERef
                       /\ bestERef' = IF better THEN Enew ELSE bestERef
                       /\ bestXRef' = IF better THEN xFlip ELSE bestXRef
                       /\ loops' = [Touch(loops, l, refs') EXCEPT ![l].k = lp.k + 1,
                                                                  ![l].touched = FALSE,
                                                                  ![l].pc = pcAfter]
     /\ UNCHANGED <<matrixText, state, x, bestX, E, bestE, iter, stopRef>>
     /\ UNCHANGED <<orchVars, callVars>>

\* mutant: an await inside the for loop, so the run yields after each proposal
ProposalYields(l) == ProposalTo(l, "await")

\* the for loop holds no await: after a proposal the run is still in its batch
Proposal(l) == ProposalTo(l, "batch")

\* the end of a batch: push the UI update, then await requestAnimationFrame
Publish(l) ==
  LET lp == loops[l]
  IN /\ lp.pc = "batch"
     /\ lp.k >= lp.limit
     /\ x' = xRef
     /\ E' = ERef
     /\ bestX' = bestXRef
     /\ bestE' = bestERef
     /\ iter' = lp.k
     /\ loops' = [loops EXCEPT ![l].pc = "await", ![l].pubE = bestERef]
     /\ UNCHANGED <<matrixText, state, xRef, ERef, bestXRef, bestERef, stopRef>>
     /\ UNCHANGED <<orchVars, callVars>>

\* the animation frame: the while condition is evaluated again; when it
\* fails, setState(stopRef.current ? "stopped" : "idle") and run() returns
Resume(l) ==
  LET lp == loops[l]
  IN /\ EvIdle
     /\ lp.pc = "await"
     /\ IF Continues(lp, stopRef)
          THEN /\ loops' = [loops EXCEPT ![l].pc = "batch", ![l].limit = NextLimit(lp)]
               /\ state' = state
          ELSE /\ loops' = [loops EXCEPT ![l] = NoLoop]
               /\ state' = IF stopRef THEN "stopped" ELSE "idle"
     /\ UNCHANGED <<matrixText, x, bestX, E, bestE, iter,
                    xRef, ERef, bestXRef, bestERef, stopRef>>
     /\ UNCHANGED <<orchVars, callVars>>

LoopStep(l) == Proposal(l) \/ Publish(l) \/ Resume(l)

Next ==
  \/ \E t \in Texts : MatrixEdit(t)
  \/ \E s \in StepsVals, b \in BatchVals, t0 \in Temps, t1 \in Temps : RunAlone(s, b, t0, t1)
  \/ Stop
  \/ \E l \in Loops : Proposal(l)
  \/ \E l \in Loops : Publish(l)
  \/ \E l \in Loops : Resume(l)

Spec == Init /\ [][Next]_vars

\* the browser always delivers the animation frame a suspended run waits for,
\* and a synchronous stretch of code always runs on
FairSpec == Spec /\ \A l \in Loops : WF_vars(LoopStep(l))

\* The playground with its matrix left alone: only Run and Stop are pressed.
NextRun ==
  \/ \E s \in StepsVals, b \in BatchVals, t0 \in Temps, t1 \in Temps : RunAlone(s, b, t0, t1)
  \/ Stop
  \/ \E l \in Loops : Proposal(l)
  \/ \E l \in Loops : Publish(l)
  \/ \E l \in Loops : Resume(l)
FairRunSpec == Init /\ [][NextRun]_vars /\ \A l \in Loops : WF_vars(LoopStep(l))

\* Math.random is fair: an outcome of a proposal (the assignment v it leaves
\* in xRef) that is possible again and again does come about.
\* The playground left on the toy matrix, with Run pressed for MaxSteps steps
\* in batches of MaxBatch at every setting of T0 and T1.
NextToy ==
  \/ \E t0 \in Temps, t1 \in Temps : RunAlone(MaxSteps, MaxBatch, t0, t1)
  \/ \E l \in Loops : Proposal(l)
  \/ \E l \in Loops : Publish(l)
  \/ \E l \in Loops : Resume(l)
FairChoiceSpec ==
  /\ Init /\ [][NextToy]_vars
  /\ \A l \in Loops : WF_vars(LoopStep(l))
  /\ \A l \in Loops : \A v \in randomBits(2) : SF_vars(Proposal(l) /\ xRef' = v)

\* The playground with Run pressed whenever its button is enabled, also while
\* an earlier invocation of run() is alive (up to MaxLoops of them).
NextLoops ==
  \/ \E t \in Texts : MatrixEdit(t)
  \/ \E t \in Temps : Run(MaxSteps, MaxBatch, t, t)
  \/ Stop
  \/ \E l \in Loops : Proposal(l)
  \/ \E l \in Loops : Publish(l)
  \/ \E l \in Loops : Resume(l)
SpecLoops == Init /\ [][NextLoops]_vars

\* The playground with only its textarea in use: every text is typed.
NextParse == \E t \in AllTexts : MatrixEdit(t)
SpecParse == Init /\ [][NextParse]_vars

(***************************************************************************)
(* Route comparison: the three orchestrators                               *)
(***************************************************************************)
\* cities[idx] is undefined for an index out of range, and reading its .lat
\* throws a TypeError
Throws(order, N) == \E k \in 1..Len(order) : order[k] \notin 0..(N - 1)

\* fetch(...).then(r => r.json()) rejects
JsonRejects(r) == ~r.net \/ ~r.json
\* the body read as JSON: its order field, [] when it is not there
BodyOrder(r) == IF r.has THEN r.order ELSE <<>>
BodyBase(r) == IF r.has THEN r.base ELSE <<>>

InitOrch ==
  /\ Mounted(<<0, 0>>)
  /\ orch \in {"demo", "ro", "lib"}
  /\ sellers = <<>>
  /\ roundTrip \in BOOLEAN
  /\ res = NoResults
  /\ errs = NoErrs
  /\ loading = FALSE
  /\ call = NoCall
  /\ CallOff

\* the stops generateSellers makes: sellerCount of them on the optimizer-demo
\* page, Math.min(12, Math.max(5, sellerCount)) of them in RouteOptimizer
GeneratedCount(count) == IF orch = "demo" THEN count ELSE Min(12, Max(5, count))

\* generateSellers of both pages: fresh random stops, results and errors cleared
GenerateSellers(count, pts) ==
  /\ orch \in {"demo", "ro"}
  /\ pts \in RandomStops(GeneratedCount(count))
  /\ pts # sellers
  /\ sellers' = pts
  /\ res' = NoResults
  /\ errs' = NoErrs
  /\ UNCHANGED <<orch, roundTrip, loading, call>>
  /\ UNCHANGED <<engineVars, callVars>>

\* optimizer-demo: optimize() up to the first await
DemoOptimize ==
  /\ orch = "demo"
  /\ ~loading /\ sellers # <<>>
  /\ loading' = TRUE
  /\ errs' = NoErrs
  /\ LET naiveOrder == Identity(Len(sellers))
         greedyOrder == greedyRoute(Depot, sellers)
         km(o) == routeDistanceKmPage(Depot, ~roundTrip, EndDepot, sellers, o, roundTrip)
     IN res' = [res EXCEPT !["naive"] = Result(naiveOrder, km(naiveOrder)),
                           !["greedy"] = Result(greedyOrder, km(greedyOrder))]
  /\ call' = [NoCall EXCEPT !.at = "qubo", !.sellers = sellers, !.rt = roundTrip]
  /\ UNCHANGED <<orch, sellers, roundTrip>>
  /\ UNCHANGED <<engineVars, callVars>>

\* one solver block of optimizer-demo: its try/catch around fetch and r.json()
DemoSolved(label, r) ==
  LET order == BodyOrder(r)
      km == routeDistanceKmPage(Depot, ~call.rt, EndDepot, call.sellers, order, call.rt)
  IN IF ~r.net THEN [result |-> Null, err |-> "request failed"]
     ELSE IF ~r.ok THEN [result |-> Null, err |-> "HTTP"]
     ELSE IF ~r.json THEN [result |-> Null, err |-> "request failed"]
     ELSE IF order = <<>> THEN [result |-> Null, err |-> "returned empty route"]
     ELSE IF Throws(order, Len(call.sellers)) THEN [result |-> Null, err |-> "request failed"]
     ELSE [result |-> Result(order, km), err |-> errs[label]]

\* optimizer-demo: /optimize/qubo answers; the JIJ request goes out
DemoQuboReply(r) ==
  /\ orch = "demo" /\ call.at = "qubo"
  /\ res' = [res EXCEPT !["qubo"] = DemoSolved("qubo", r).result]
  /\ errs' = [errs EXCEPT !.qubo = DemoSolved("qubo", r).err]
  /\ call' = [call EXCEPT !.at = "jij"]
  /\ UNCHANGED <<orch, sellers, roundTrip, loading>>
  /\ UNCHANGED <<engineVars, callVars>>

\* optimizer-demo: /optimize/jij answers; finally setLoadingOpt(false)
DemoJijReply(r) ==
  /\ orch = "demo" /\ call.at = "jij"
  /\ res' = [res EXCEPT !["jij"] = DemoSolved("jij", r).result]
  /\ errs' = [errs EXCEPT !.jij = DemoSolved("jij", r).err]
  /\ call' = [call EXCEPT !.at = "idle"]
  /\ loading' = FALSE
  /\ UNCHANGED <<orch, sellers, roundTrip>>
  /\ UNCHANGED <<engineVars, callVars>>

\* RouteOptimizer: optimize() up to await Promise.all
ROOptimize ==
  /\ orch = "ro"
  /\ ~loading /\ Len(sellers) >= MinSellers
  /\ loading' = TRUE
  /\ errs' = NoErrs
  /\ res' = NoResults
  /\ call' = [NoCall EXCEPT !.at = "wait", !.sellers = sellers, !.rt = roundTrip]
  /\ UNCHANGED <<orch, sellers, roundTrip>>
  /\ UNCHANGED <<engineVars, callVars>>

\* the rejections Promise.all can settle with, and the throw after it
RORejections(cl, jij) ==
  (IF JsonRejects(cl) THEN {"classical request failed"} ELSE {})
    \cup (IF ~jij.net THEN {"jij request failed"}
          ELSE IF ~jij.ok THEN {"JIJ endpoint not found"}
          ELSE IF ~jij.json THEN {"jij request failed"} ELSE {})

ROKm(order) ==
  IF order # <<>>
  THEN distanceForOrderIncludingDepots(order, call.sellers, Depot,
         IF call.rt THEN Depot ELSE EndDepot, call.rt)
  ELSE NullKm

\* RouteOptimizer: Promise.all settles; the rest of optimize()
ROReply(cl, jij) ==
  /\ orch = "ro" /\ call.at = "wait"
  /\ IF RORejections(cl, jij) # {}
     THEN /\ \E m \in RORejections(cl, jij) : errs' = [errs EXCEPT !.error = m]
          /\ res' = NoResults
     ELSE IF ~cl.flagOk
     THEN /\ errs' = [errs EXCEPT !.error = "Classical solver error"]
          /\ res' = NoResults
     ELSE IF \E o \in {BodyOrder(cl), BodyBase(cl), BodyOrder(jij)} :
               Throws(o, Len(call.sellers))
     THEN /\ errs' = [errs EXCEPT !.error = "TypeError"]
          /\ res' = NoResults
     ELSE /\ errs' = errs
          /\ res' = [naive |-> Result(Identity(Len(call.sellers)),
                                      ROKm(Identity(Len(call.sellers)))),
                     qubo |-> Result(BodyOrder(cl), ROKm(BodyOrder(cl))),
                     greedy |-> Result(BodyBase(cl), ROKm(BodyBase(cl))),
                     jij |-> Result(BodyOrder(jij), ROKm(BodyOrder(jij)))]
  /\ call' = [call EXCEPT !.at = "idle"]
  /\ loading' = FALSE
  /\ UNCHANGED <<orch, sellers, roundTrip>>
  /\ UNCHANGED <<engineVars, callVars>>

\* runOptimize(params) up to the first await; res is what the call returns
LibCall(pts, rt) ==
  /\ orch = "lib"
  /\ call.at \in {"idle", "returned", "thrown"}
  /\ res' = NoResults
  /\ call' = [NoCall EXCEPT !.at = "jij", !.sellers = pts, !.rt = rt]
  /\ UNCHANGED <<orch, sellers, roundTrip, errs, loading>>
  /\ UNCHANGED <<engineVars, callVars>>

\* runOptimize: /optimize/jij answers
LibJijReply(r) ==
  /\ orch = "lib" /\ call.at = "jij"
  /\ call' = IF JsonRejects(r) THEN [call EXCEPT !.at = "thrown"]
             ELSE [call EXCEPT !.at = "cl", !.jij = r]
  /\ UNCHANGED <<orch, sellers, roundTrip, res, errs, loading>>
  /\ UNCHANGED <<engineVars, callVars>>

\* runOptimize: /api/solve answers; return
LibClReply(r) ==
  /\ orch = "lib" /\ call.at = "cl"
  /\ IF JsonRejects(r)
     THEN /\ call' = [call EXCEPT !.at = "thrown"]
          /\ res' = res
     ELSE /\ call' = [call EXCEPT !.at = "returned"]
          /\ res' = [res EXCEPT !["jij"] = Result(BodyOrder(call.jij), call.jij.km),
                                !["qubo"] = Result(BodyOrder(r), r.km),
                                !["greedy"] = Result(BodyBase(r), r.km)]
  /\ UNCHANGED <<orch, sellers, roundTrip, errs, loading>>
  /\ UNCHANGED <<engineVars, callVars>>

\* every answer a call in flight can get (runOptimize hands the orders on
\* unread: it is observed on the orders the pages' distance functions accept)
Answers == Resps(Len(call.sellers))
             \cup (IF orch = "lib" THEN {} ELSE RespBad(Len(call.sellers)))

NextOrch ==
  \/ \E count \in Counts, pts \in StopSets \cup {Pair2} : GenerateSellers(count, pts)
  \/ DemoOptimize
  \/ \E r \in Answers : DemoQuboReply(r)
  \/ \E r \in Answers : DemoJijReply(r)
  \/ ROOptimize
  \/ \E cl \in Answers, jij \in Answers : ROReply(cl, jij)
  \/ \E pts \in StopSets, rt \in BOOLEAN : LibCall(pts, rt)
  \/ \E r \in Answers : LibJijReply(r)
  \/ \E r \in Answers : LibClReply(r)

SpecOrch == InitOrch /\ [][NextOrch]_vars

(***************************************************************************)
(* The helper functions, each called on its own on every small input       *)
(***************************************************************************)
MaxStops == 2        \* stops of a tour whose polyline or distance is taken
MaxGreedy == 3       \* stops handed to greedyRoute
MaxDim == 2          \* dimension of a matrix handed to energyQubo

Grid == {Pt(0, 0), Pt(0, 1), Pt(0, 2), Pt(2, 0)}
Entries == {0 - 2, 1}

\* the orders that visit each of N stops once
Perms(N) == {o \in [1..N -> 0..(N - 1)] : \A i, j \in 1..N : o[i] = o[j] => i = j}

\* the orders of valid indices handed to a distance function: none, the
\* permutations, one stop only, one stop again and again
Orders(N) == {<<>>} \cup Perms(N) \cup {<<k>> : k \in 0..(N - 1)}
               \cup {[i \in 1..N |-> k] : k \in 0..(N - 1)}

\* an absent start or end is written with the first grid point in its place
Maybe == {[has |-> FALSE, pt |-> Pt(0, 0)]} \cup {[has |-> TRUE, pt |-> g] : g \in Grid}

PolylineArgs ==
  UNION {{[order |-> o, cities |-> c, opts |-> Opts(rt, st.has, st.pt, en.has, en.pt)] :
            o \in Perms(Len(c)), rt \in BOOLEAN, st \in Maybe, en \in Maybe} :
         c \in SeqsUpTo(Grid, MaxStops)}

DistanceArgs ==
  UNION {{[order |-> o, cities |-> c, start |-> st, hasEnd |-> en.has, end |-> en.pt, rt |-> rt] :
            o \in Orders(Len(c)), rt \in BOOLEAN, st \in Grid, en \in Maybe} :
         c \in SeqsUpTo(Grid, MaxStops)}

\* the unit square, walked from its first corner
Square == <<Pt(0, 0), Pt(0, 1), Pt(1, 1), Pt(1, 0)>>

GreedyArgs ==
  {[start |-> st, pts |-> c] : st \in Grid, c \in SeqsUpTo(Grid, MaxGreedy)}
    \cup {[start |-> Square[1], pts |-> Square]}

EnergyArgs ==
  UNION {{[Q |-> q, x |-> b] : q \in [1..d -> [1..d -> Entries]], b \in randomBits(d)} :
         d \in 0..MaxDim}

\* a start and stops of which one at least has a coordinate that is NaN
NonFiniteArgs ==
  {a \in {[start |-> st, pts |-> c] : st \in Grid \cup {Pt(NaN, 0)},
                                     c \in SeqsUpTo(Grid \cup {Pt(NaN, 0)}, MaxGreedy)} :
     a.start.lat = NaN \/ \E k \in 1..Len(a.pts) : a.pts[k].lat = NaN}

\* paths of up to MaxGreedy points, a point with a NaN latitude among them
ClosedArgs ==
  {[path |-> p, rt |-> rt] :
     p \in SeqsUpTo({Tup(q) : q \in Grid \cup {Pt(NaN, 0)}}, MaxGreedy), rt \in BOOLEAN}

ArgsOf(f) ==
  CASE f = "orderToPolyline" -> PolylineArgs
    [] f = "ensureClosed" -> ClosedArgs
    [] f = "greedyRoute" -> GreedyArgs
    [] f = "greedyRouteNonFinite" -> NonFiniteArgs
    [] f = "energyQubo" -> EnergyArgs
    [] f = "distanceForOrderIncludingDepots" -> {a \in DistanceArgs : a.hasEnd}
    [] OTHER -> DistanceArgs

Fns == {"orderToPolyline", "routeDistanceKm", "routeDistanceKmPage",
        "distanceForOrderIncludingDepots", "greedyRoute", "greedyRouteNonFinite",
        "ensureClosed",
        "energyQubo"}

InitFn ==
  /\ Mounted(<<0, 0>>)
  /\ OrchOff
  /\ fn \in Fns
  /\ arg \in ArgsOf(fn)
  /\ out = Pending

Returns(f, v) ==
  /\ fn = f /\ ~out.done
  /\ out' = Returned(v)
  /\ UNCHANGED <<fn, arg, engineVars, orchVars>>

CallOrderToPolyline ==
  Returns("orderToPolyline", orderToPolyline(arg.order, arg.cities, arg.opts))
CallRouteDistanceKm ==
  Returns("routeDistanceKm",
          routeDistanceKm(arg.start, arg.hasEnd, arg.end, arg.cities, arg.order, arg.rt))
CallRouteDistanceKmPage ==
  Returns("routeDistanceKmPage",
          routeDistanceKmPage(arg.start, arg.hasEnd, arg.end, arg.cities, arg.order, arg.rt))
CallDistanceForOrder ==
  Returns("distanceForOrderIncludingDepots",
          distanceForOrderIncludingDepots(arg.order, arg.cities, arg.start, arg.end, arg.rt))
CallGreedyRoute == Returns("greedyRoute", greedyRoute(arg.start, arg.pts))
\* greedyRoute on coordinates that are not all finite
CallGreedyRouteNonFinite == Returns("greedyRouteNonFinite", greedyRoute(arg.start, arg.pts))
CallEnsureClosed == Returns("ensureClosed", ensureClosed(arg.path, arg.rt))
CallEnergyQubo == Returns("energyQubo", energyQubo(arg.Q, arg.x))

NextFn ==
  \/ CallOrderToPolyline
  \/ CallRouteDistanceKm
  \/ CallRouteDistanceKmPage
  \/ CallDistanceForOrder
  \/ CallGreedyRoute
  \/ CallGreedyRouteNonFinite
  \/ CallEnsureClosed
  \/ CallEnergyQubo

SpecFn == InitFn /\ [][NextFn]_vars

(***************************************************************************)
(* Properties                                                              *)
(***************************************************************************)
Multiple(k, b) == \E m \in 0..k : k = m * b

\* the step is the batch-boundary publication of run l
Publishes(l) == loops[l].pc = "batch" /\ loops'[l].pc = "await"
\* the step is run l leaving its while loop and returning
Halts(l) == loops[l].pc = "await" /\ loops'[l].pc = "none"
\* the step is a proposal of run l
Proposes(l) == loops[l].pc = "batch" /\ loops[l].k < loops[l].limit

\* C1: within one run bestEnergy never increases: no proposal raises it, and
\* the value a run publishes at a batch boundary is never above the value it
\* had at its previous batch boundary (at first: at its start).
C1_BestNeverIncreases ==
  [][\A l \in Loops :
       /\ Proposes(l) => ~Lt(bestERef, bestERef')
       /\ Publishes(l) => ~Lt(loops[l].pubE, bestE')]_vars

\* a stop request is pending on a run in progress
StopPending == stopRef /\ state = "running" /\ \E l \in Loops : Alive(l)

\* C2: once stop() is called while a run is in progress, the best assignment
\* and best energy (working and published) are not changed again until the
\* run has halted, and the state eventually becomes "stopped".
C2_StopKeepsBest ==
  /\ [][StopPending => UNCHANGED <<bestXRef, bestERef, bestX, bestE>>]_vars
  /\ [](StopPending => <>(state = "stopped"))

\* C3: a stop request never lands inside a batch; every run publishes, at a
\* batch boundary, the number of proposals it has evaluated; and when a
\* cancelled run halts that number is a multiple of its batch size or equals
\* its steps.
C3_StopAtBatchBoundary ==
  [][/\ (stopRef' /\ ~stopRef) => (EvIdle /\ \A l \in Loops : loops'[l] = loops[l])
     /\ \A l \in Loops :
          /\ Publishes(l) => iter' = loops[l].k
          /\ (Halts(l) /\ stopRef) =>
               /\ state' = "stopped"
               /\ Multiple(loops[l].k, loops[l].batch) \/ loops[l].k = loops[l].total]_vars

\* a cancelled run has halted in the middle of its steps, at a batch boundary
C3_Witness == state = "stopped" /\ stopRef /\ iter > 0 /\ iter < MaxSteps

\* C4: a run that is never cancelled terminates by natural completion: every
\* run in progress eventually returns unless a stop is requested, and when it
\* returns uncancelled it has evaluated steps proposals, the published
\* iteration is steps, and the state becomes idle.
C4_RunCompletes ==
  /\ [][\A l \in Loops : (Halts(l) /\ ~stopRef) =>
          /\ loops[l].k = loops[l].total
          /\ iter = loops[l].total
          /\ state' = "idle"]_vars
  /\ \A l \in Loops : [](Alive(l) => <>(~Alive(l) \/ stopRef))

\* the engine is in the state a hard reset for the loaded matrix leaves
HardReset ==
  /\ Len(xRef) = n
  /\ \A i \in 1..Len(xRef) : xRef[i] \in {0, 1}
  /\ ERef = energyQubo(Q.mat, xRef)
  /\ bestXRef = xRef /\ bestERef = ERef
  /\ x = xRef /\ E = ERef /\ bestX = xRef /\ bestE = ERef
  /\ iter = 0
  /\ state = "idle"

\* C5: every change of the loaded matrix to a different valid matrix, also
\* one of the same dimension, leaves the engine hard reset.
C5_MatrixChangeResets ==
  [][(Q'.ok /\ (~Q.ok \/ Q'.mat # Q.mat)) => HardReset']_vars

\* C6: a run evaluates each proposal after its first on the refs as its
\* previous proposal left them.
C6_ProposalOnOwnState ==
  \A l \in Loops : (Proposes(l) /\ loops[l].k > 0) => ~loops[l].touched

\* the typed text is a square matrix: as many tokens in every row as rows
TextIsSquare(t) == \A r \in 1..Len(t.rows) : Len(t.rows[r]) = Len(t.rows)
\* the typed text holds a non-numeric entry
TextHasNonNumeric(t) == \E r \in 1..Len(t.rows) : \E c \in 1..Len(t.rows[r]) :
                          ToNumber(t.rows[r][c]) = NaN

\* C7: a non-square matrix text is rejected (Q is null), and typing it
\* creates or resets no engine state.
C7_NonSquareRejected ==
  /\ [](~TextIsSquare(matrixText) => ~Q.ok)
  /\ [][(matrixText' # matrixText /\ ~TextIsSquare(matrixText')) =>
          UNCHANGED <<x, bestX, E, bestE, iter, state, xRef, ERef, bestXRef, bestERef>>]_vars

\* C8: a matrix text with a non-numeric entry is rejected (Q is null): no
\* matrix with a NaN entry, and no smaller matrix without the token, is loaded.
C8_NonNumericRejected == TextHasNonNumeric(matrixText) => ~Q.ok

\* a remote call that succeeded: it answered 2xx with a JSON body holding a
\* non-empty order (anything else is a failed call)
Succeeded(r) == r.net /\ r.ok /\ r.json /\ r.flagOk /\ r.has /\ r.order # <<>>

\* C9: in each orchestrator a failing solver call leaves every other label's
\* result produced and kept: handling one solver's answer changes that label
\* only, a succeeded call's result is stored or returned whatever the other
\* call came to, and the naive result is there once RouteOptimizer is done.
C9_FailuresIsolated ==
  [][/\ \A r \in Answers :
          /\ DemoQuboReply(r) =>
               /\ \A l \in Labels \ {"qubo"} : res'[l] = res[l]
               /\ Succeeded(r) => res'["qubo"].some
          /\ DemoJijReply(r) =>
               /\ \A l \in Labels \ {"jij"} : res'[l] = res[l]
               /\ Succeeded(r) => res'["jij"].some
          /\ LibJijReply(r) => call'.at = "cl"
          /\ LibClReply(r) =>
               /\ Succeeded(call.jij) => res'["jij"].some
               /\ Succeeded(r) => res'["qubo"].some /\ res'["greedy"].some
     /\ \A cl \in Answers, jij \in Answers :
          ROReply(cl, jij) =>
            /\ res'["naive"].some
            /\ Succeeded(cl) => res'["qubo"].some /\ res'["greedy"].some
            /\ Succeeded(jij) => res'["jij"].some]_vars

\* C10: no stored or returned result of any label has an empty order.
C10_NoEmptyOrderResult ==
  \A l \in Labels : res[l].some => res[l].order # <<>>

\* C11: whenever a result with a non-empty order is stored or returned for a
\* label, the distance it carries is the tour distance of its order over the
\* stops and depot policy of the call, never a distance the remote solver
\* reported.
C11_DistancesRecomputed ==
  [][\A l \in Labels :
       (res'[l] # res[l] /\ res'[l].some /\ res'[l].order # <<>>) =>
         res'[l].km = routeDistanceKm(Depot, ~call'.rt, EndDepot, call'.sellers,
                                      res'[l].order, call'.rt)]_vars

Called(f) == fn = f /\ out.done
Near(p, q) == nearlyEqual(p[1], q[1]) /\ nearlyEqual(p[2], q[2])

\* C12: for every permutation order and every depot policy with roundTrip
\* true, the first and the last point of the polyline orderToPolyline returns
\* are equal within 1e-9 in each coordinate (a polyline without any point,
\* from no stop, no start and no end, has neither).
C12_RoundTripPolylineClosed ==
  (Called("orderToPolyline") /\ arg.opts.rt /\ out.val # <<>>) =>
    Near(out.val[1], Last(out.val))

\* a round trip over two stops with a start and an end away from it: the
\* closing point is the fifth
C12_Witness ==
  /\ Called("orderToPolyline") /\ arg.opts.rt
  /\ arg.opts.hasStart /\ arg.opts.hasEnd /\ Len(arg.order) = MaxStops
  /\ ~Near(Tup(arg.opts.start), Tup(arg.opts.end))
  /\ Len(out.val) = MaxStops + 3

\* C13: with roundTrip true the end is ignored: the polyline and the tour
\* distance are those of the same call without an end.
C13_RoundTripIgnoresEnd ==
  /\ (Called("orderToPolyline") /\ arg.opts.rt) =>
       out.val = orderToPolyline(arg.order, arg.cities,
                   Opts(TRUE, arg.opts.hasStart, arg.opts.start, FALSE, arg.opts.end))
  /\ (Called("routeDistanceKm") /\ arg.rt) =>
       out.val = routeDistanceKm(arg.start, FALSE, arg.end, arg.cities, arg.order, TRUE)

\* C14: greedyRoute returns an order of length N holding every index of
\* [0..N) exactly once.
C14_GreedyPermutation ==
  Called("greedyRoute") => out.val \in Perms(Len(arg.pts))

C14_Witness ==
  /\ Called("greedyRoute") /\ Len(arg.pts) = MaxGreedy
  /\ \A i, j \in 1..Len(arg.pts) : arg.pts[i] = arg.pts[j] => i = j
  /\ out.val # [i \in 1..Len(arg.pts) |-> i - 1]

\* the stops not yet visited before step k of an order, and where step k
\* starts from
Unvisited(order, k, N) == (0..(N - 1)) \ {order[j] : j \in 1..(k - 1)}
Position(order, k, start, pts) == IF k = 1 THEN start ELSE At(pts, order[k - 1])

\* C15: at every step greedyRoute takes, among the stops not yet visited, one
\* at the least distance from the current position, and of several at that
\* distance the one of lowest index.
C15_GreedyNearestLowestIndex ==
  Called("greedyRoute") =>
    \A k \in 1..Len(out.val) :
      LET unv == Unvisited(out.val, k, Len(arg.pts))
          d(i) == haversine(Position(out.val, k, arg.start, arg.pts), At(arg.pts, i))
      IN /\ out.val[k] \in unv
         /\ \A j \in unv : d(out.val[k]) < d(j) \/ (d(out.val[k]) = d(j) /\ out.val[k] <= j)

\* the first step has two different stops at the same least distance
C15_Witness ==
  /\ Called("greedyRoute") /\ Len(out.val) = MaxGreedy
  /\ \E i, j \in 1..Len(arg.pts) :
       /\ i < j /\ arg.pts[i] # arg.pts[j]
       /\ haversine(arg.start, arg.pts[i]) = haversine(arg.start, arg.pts[j])
       /\ \A m \in 1..Len(arg.pts) :
            haversine(arg.start, arg.pts[i]) <= haversine(arg.start, arg.pts[m])
       /\ out.val[1] = i - 1

FirstPoint == IF arg.opts.hasStart THEN Tup(arg.opts.start) ELSE Tup(At(arg.cities, 0))

RECURSIVE RowSum(_, _, _, _)
RowSum(M, v, i, j) ==
  IF j > Len(v) THEN 0 ELSE M[i][j] * v[i] * v[j] + RowSum(M, v, i, j + 1)
RECURSIVE QuadraticForm(_, _, _)
QuadraticForm(M, v, i) ==
  IF i > Len(v) THEN 0 ELSE RowSum(M, v, i, 1) + QuadraticForm(M, v, i + 1)

\* C19: energyQubo(Q, x) is the sum of Q[i][j] over the ordered pairs (i, j)
\* with x_i = 1 and x_j = 1, for symmetric and asymmetric Q.
C19_EnergyIsQuadraticForm ==
  Called("energyQubo") => out.val = QuadraticForm(arg.Q, arg.x, 1)

\* an asymmetric matrix with both bits set
C19_Witness ==
  /\ Called("energyQubo") /\ Len(arg.x) = MaxDim
  /\ \A i \in 1..Len(arg.x) : arg.x[i] = 1
  /\ arg.Q[1][MaxDim] # arg.Q[MaxDim][1]

InBounds(stops) == Len(stops) >= MinSellers /\ Len(stops) <= MaxSellers

\* C18: on both pages stop generation never makes a stop set of fewer than 5
\* or more than 50 stops, and while the stored stop set is outside those
\* bounds no optimize call starts and the stored results stay as they are.
C18_StopCountBounds ==
  [][(orch \in {"demo", "ro"}) =>
       ((sellers' # sellers => InBounds(sellers'))
        /\ ((~InBounds(sellers) /\ sellers' = sellers) =>
              (call' = call /\ res' = res /\ loading' = loading)))]_vars

\* the brute-force minimum of energyQubo over all assignments of the toy model
ToyQ == parseMatrix(ToyText).mat
BruteMin == CHOOSE e \in {energyQubo(ToyQ, v) : v \in randomBits(2)} :
              \A v \in randomBits(2) : e <= energyQubo(ToyQ, v)
Optimum == bestE = BruteMin /\ energyQubo(ToyQ, bestX) = BruteMin

\* a run is about to make a proposal; one whose T0 and T1 are both positive
ProposalPending(l) == loops[l].pc = "batch" /\ loops[l].k < loops[l].limit
PositiveTemps(l) == loops[l].t0 > 0 /\ loops[l].t1 > 0

\* C20: on the toy model, when proposals keep being made and Math.random is
\* fair, the published bestEnergy eventually equals the brute-force minimum
\* and the published bestAssignment attains it, from every initial assignment.
C20_ToyReachesOptimum ==
  ([]<>(\E l \in Loops : ProposalPending(l))) => <>Optimum

\* C20, with its precondition on the temperature: the same, when the
\* proposals that keep being made are made at T0 > 0 and T1 > 0.
C20_ToyReachesOptimumWhenHot ==
  ([]<>(\E l \in Loops : ProposalPending(l) /\ PositiveTemps(l))) => <>Optimum

\* a run at positive temperatures has just found the minimum, from a best
\* energy above it
C20_Witness ==
  \E l \in Loops : /\ Alive(l) /\ PositiveTemps(l)
                    /\ bestERef = BruteMin /\ bestE > BruteMin

\* C21: on the unit square (0,0),(0,1),(1,1),(1,0) with start (0,0) and a
\* round trip, greedyRoute visits all four stops, every leg between
\* consecutive stops and the closing leg back to start is a side of the
\* square, and the tour distance is four side lengths.
C21_SquarePerimeter ==
  (Called("greedyRoute") /\ arg.pts = Square /\ arg.start = Square[1]) =>
    LET side == haversine(Square[1], Square[2])
    IN /\ out.val \in Perms(Len(Square))
       /\ \A k \in 1..(Len(out.val) - 1) :
            haversine(At(Square, out.val[k]), At(Square, out.val[k + 1])) = side
       /\ haversine(At(Square, Last(out.val)), arg.start) = side
       /\ routeDistanceKm(arg.start, FALSE, arg.start, Square, out.val, TRUE) = 4 * side

\* greedyRoute has returned the perimeter order for the square
C21_Witness ==
  Called("greedyRoute") /\ arg.pts = Square /\ out.val = <<0, 1, 2, 3>>

\* C22: on both pages no result with a distance is stored for an order that
\* is not a permutation of the stop indices of the call, and a remote order
\* that is none leaves the results of the other solver's permutation in
\* place.
C22_NonPermutationIsFailure ==
  [][(orch \in {"demo", "ro"}) =>
       /\ \A l \in Labels :
            (res'[l] # res[l] /\ res'[l].some /\ res'[l].km # NullKm) =>
              res'[l].order \in Perms(Len(call'.sellers))
       /\ \A cl \in Answers, jij \in Answers :
            (ROReply(cl, jij) /\ Succeeded(cl) /\ cl.order \in Perms(Len(call.sellers))) =>
              res'["qubo"].some]_vars

\* C23: on both pages every stored result with a distance is one of the stop
\* set now stored: its order holds only indices of those stops and its
\* distance is the tour distance of the order over them.
C23_ResultsOfCurrentStops ==
  (orch \in {"demo", "ro"}) =>
    \A l \in Labels :
      (res[l].some /\ res[l].km # NullKm) =>
        /\ ~Throws(res[l].order, Len(sellers))
        /\ res[l].km = routeDistanceKm(Depot, ~roundTrip, EndDepot, sellers,
                                       res[l].order, roundTrip)

\* C24: at most one invocation of run() is alive at any time, in its batch or
\* suspended at a batch boundary: run() never starts a loop while an earlier
\* one has not returned.
C24_OneLoopAtATime == Cardinality({l \in Loops : Alive(l)}) <= 1

\* C25: in every published snapshot of a loaded matrix Q the assignment has
\* exactly n entries, each 0 or 1, and the current energy is energyQubo of Q
\* and that assignment.
C25_SnapshotEnergy ==
  Q.ok => /\ Len(x) = n
          /\ \A i \in 1..Len(x) : x[i] \in {0, 1}
          /\ E = energyQubo(Q.mat, x)

\* C26: in every published snapshot of a loaded matrix Q the best energy is
\* energyQubo of Q and the best assignment, and is at most the current
\* energy.
C26_SnapshotBest ==
  Q.ok => /\ Len(bestX) = n
          /\ bestE = energyQubo(Q.mat, bestX)
          /\ Le(bestE, E)

\* C27: for every non-empty order of valid stop indices, every start, and a
\* round trip or an explicit end, routeDistanceKm of lib/routeHelpers,
\* routeDistanceKm of the optimizer-demo page and
\* distanceForOrderIncludingDepots of RouteOptimizer return the same total.
C27_DistancesAgree ==
  ((Called("routeDistanceKm") \/ Called("routeDistanceKmPage")
      \/ Called("distanceForOrderIncludingDepots"))
     /\ arg.order # <<>> /\ (arg.rt \/ arg.hasEnd)) =>
    /\ out.val = routeDistanceKm(arg.start, arg.hasEnd, arg.end, arg.cities, arg.order, arg.rt)
    /\ out.val = routeDistanceKmPage(arg.start, arg.hasEnd, arg.end, arg.cities, arg.order, arg.rt)
    /\ out.val = distanceForOrderIncludingDepots(arg.order, arg.cities, arg.start, arg.end, arg.rt)

\* RouteOptimizer's function on an open tour that goes back from stop 1 to
\* stop 0, two different points: it reads D[1][0]
C27_Witness ==
  /\ Called("distanceForOrderIncludingDepots") /\ ~arg.rt
  /\ arg.order = <<1, 0>> /\ arg.cities[1] # arg.cities[2]

\* C28: a proposal of a run either is accepted, leaving the flipped assignment
\* and its energy in the working copies, or changes none of the working
\* assignment, current energy, best assignment and best energy; and it is
\* rejected only when the new energy is above the current one.
C28_RejectedChangesNothing ==
  [][\A l \in Loops :
       (Proposes(l) /\ loops'[l] # loops[l]) =>
         \E i \in 1..Len(loops[l].Q) :
           LET xFlip == SetAt(xRef, i, Xor1(Get(xRef, i)))
           IN /\ ~energyThrows(loops[l].Q, xFlip)
              /\ \/ xRef' = xFlip /\ ERef' = energyQubo(loops[l].Q, xFlip)
                 \/ /\ UNCHANGED <<xRef, ERef, bestXRef, bestERef>>
                    /\ ~Le(Minus(energyQubo(loops[l].Q, xFlip), ERef), 0)]_vars

\* C29: greedyRoute returns for every input after exactly N selections, also
\* when distances are NaN, and no selection appends an index outside [0..N).
C29_GreedyTerminates ==
  (Called("greedyRoute") \/ Called("greedyRouteNonFinite")) =>
    /\ Len(out.val) = Len(arg.pts)
    /\ \A k \in 1..Len(out.val) : out.val[k] \in 0..(Len(arg.pts) - 1)

\* C30: ensureClosed is idempotent for every path and roundTrip flag; it
\* returns the path unchanged when roundTrip is false, when the path has
\* fewer than 2 points or when its last point is its first (within Eps in
\* each coordinate or the very same point), and otherwise appends exactly
\* one point equal to the first and leaves the existing points alone.
C30_EnsureClosedIdempotent ==
  Called("ensureClosed") =>
    LET path == arg.path
        same == \/ Last(path) = path[1]
                \/ /\ nearlyEqual(path[1][1], Last(path)[1])
                   /\ nearlyEqual(path[1][2], Last(path)[2])
    IN /\ ensureClosed(out.val, arg.rt) = out.val
       /\ IF ~arg.rt \/ Len(path) < 2 THEN out.val = path
          ELSE IF same THEN out.val = path
          ELSE out.val = Append(path, path[1])
====
